---- MODULE Spec2Model ----
(***************************************************************************)
(* Haystack scalar Kinds (NumberKind, RefKind, CoordKind, BinKind,         *)
(* XStrKind): default values, classification, tag specialization and the   *)
(* three text encodings.                                                   *)
(*                                                                         *)
(* Strings are sequences of one-character strings, so that concatenation,  *)
(* prefixes and escaping are computed and not assumed.                     *)
(***************************************************************************)
EXTENDS Integers, Sequences, FiniteSets, TLC

(***************************************************************************)
(* Bounds                                                                  *)
(***************************************************************************)
\* number of Kind objects on the heap (five singletons plus derived Ref kinds)
MaxKinds == 7
\* finite float magnitudes range over -MaxMag..MaxMag
MaxMag == 1
\* durations are sampled up to MaxDelta ticks on either side of each threshold
MaxDelta == 1

(***************************************************************************)
(* Strings and primitive values                                            *)
(***************************************************************************)
\* Python None / Fantom null: a one-element sequence that is no character string
None == <<"None">>

S_Ref == <<"R", "e", "f">>
S_Number == <<"N", "u", "m", "b", "e", "r">>
S_Coord == <<"C", "o", "o", "r", "d">>
S_Bin == <<"B", "i", "n">>
S_XStr == <<"X", "S", "t", "r">>

\* sample strings: plain, empty, with the JSON delimiter, with a quote
SampleStrs == {<<"a">>, <<>>, <<"a", ":", "b">>, <<"\"">>}
\* tags given to toTagOf (one of them empty) and strings given to the tag setter
Tags == {<<"a">>, <<"b">>, <<>>}
SetTags == {<<"b">>}

\* sys::Float values: NaN, the two infinities, finite magnitudes
NaN == [c |-> "nan", v |-> 0]
PosInf == [c |-> "inf", v |-> 1]
NegInf == [c |-> "inf", v |-> -1]
Fin(i) == [c |-> "fin", v |-> i]
Floats == {NaN, PosInf, NegInf} \cup {Fin(i) : i \in (-MaxMag)..MaxMag}

\* Float.is_na_n(f)
Float_is_na_n(f) == f.c = "nan"
\* f == g on floats: every comparison with NaN is false
FloatEq(f, g) == f.c # "nan" /\ g.c # "nan" /\ f = g

Digit(d) == CASE d = 0 -> "0" [] d = 1 -> "1" [] d = 2 -> "2" [] d = 3 -> "3"
              [] d = 4 -> "4" [] d = 5 -> "5" [] d = 6 -> "6" [] d = 7 -> "7"
              [] d = 8 -> "8" [] OTHER -> "9"

RECURSIVE NatStr(_)
NatStr(n) == IF n < 10 THEN <<Digit(n)>> ELSE NatStr(n \div 10) \o <<Digit(n % 10)>>

IntStr(i) == IF i < 0 THEN <<"-">> \o NatStr(-i) ELSE NatStr(i)

\* sys::Float.toStr
FloatStr(f) == CASE f.c = "nan" -> <<"N", "a", "N">>
                 [] f = PosInf -> <<"I", "N", "F">>
                 [] f = NegInf -> <<"-", "I", "N", "F">>
                 [] OTHER -> IntStr(f.v)

\* Str.to_code: double quotes around the text, quote, backslash and
\* non-printable characters escaped
EscChar(ch) == CASE ch = "\"" -> <<"\\", "\"">>
                 [] ch = "\\" -> <<"\\", "\\">>
                 [] ch = "\n" -> <<"\\", "n">>
                 [] OTHER -> <<ch>>

RECURSIVE EscStr(_)
EscStr(s) == IF s = <<>> THEN <<>> ELSE EscChar(Head(s)) \o EscStr(Tail(s))

Str_to_code(s) == <<"\"">> \o EscStr(s) \o <<"\"">>

(***************************************************************************)
(* Scalar values                                                           *)
(***************************************************************************)
Numbers == [t : {"haystack::Number"}, float : Floats, unit : {None, <<"m">>}]
Refs == [t : {"xeto::Ref"}, id : {<<"a">>, <<"b">>}, dis : {None, <<"x">>, <<"\"">>}]
Coords == [t : {"haystack::Coord"}, lat : {0, -9}, lng : {0, 12}]
Bins == [t : {"haystack::Bin"}, mime : SampleStrs]
XStrs == [t : {"haystack::XStr"}, type : {<<"T">>, <<"a">>, <<"a", ":">>},
          val : {<<"p">>, <<"b">>, <<":", "b">>, <<"\"">>}]
Values == Numbers \cup Refs \cup Coords \cup Bins \cup XStrs

\* Number.toStr: magnitude followed by the unit symbol
Number_to_str(n) == FloatStr(n.float) \o (IF n.unit = None THEN <<>> ELSE n.unit)
\* Number.toJson: "n:" magnitude, a space and the unit when there is one
Number_to_json(n) == <<"n", ":">> \o FloatStr(n.float)
                       \o (IF n.unit = None THEN <<>> ELSE <<" ">> \o n.unit)
\* Ref.toStr: the id
Ref_toStr(r) == r.id
\* Ref.toZinc: "@" id and, when there is a display string, a space and it quoted
Ref_toZinc(r) == <<"@">> \o r.id
                   \o (IF r.dis = None THEN <<>> ELSE <<" ">> \o Str_to_code(r.dis))
\* Ref.toCode: the reference code form
Ref_toCode(r) == <<"@">> \o r.id
                   \o (IF r.dis = None THEN <<>> ELSE <<" ">> \o Str_to_code(r.dis))
\* Ref.toJson: "r:" id and, when there is a display string, a space and it raw
Ref_toJson(r) == <<"r", ":">> \o r.id
                   \o (IF r.dis = None THEN <<>> ELSE <<" ">> \o r.dis)
\* Coord.toLatLgnStr: "lat,lng"
Coord_toLatLgnStr(c) == IntStr(c.lat) \o <<",">> \o IntStr(c.lng)
\* Coord.toStr: "C(lat,lng)"
Coord_toStr(c) == <<"C", "(">> \o Coord_toLatLgnStr(c) \o <<")">>
\* Bin.toStr: the mime type
Bin_to_str(b) == b.mime
\* XStr.toStr: type("val")
XStr_to_str(x) == x.type \o <<"(">> \o Str_to_code(x.val) \o <<")">>

\* ObjUtil.to_str(val): the value's own string form
ObjUtil_to_str(v) == CASE v.t = "haystack::Number" -> Number_to_str(v)
                       [] v.t = "xeto::Ref" -> Ref_toStr(v)
                       [] v.t = "haystack::Coord" -> Coord_toStr(v)
                       [] v.t = "haystack::Bin" -> Bin_to_str(v)
                       [] OTHER -> XStr_to_str(v)

\* canonical defaults owned by the variants
Number_def_val == [t |-> "haystack::Number", float |-> Fin(0), unit |-> None]
Ref_defVal == [t |-> "xeto::Ref", id |-> <<"a">>, dis |-> None]
Coord_defVal == [t |-> "haystack::Coord", lat |-> 0, lng |-> 0]
Bin_def_val == [t |-> "haystack::Bin", mime |-> <<"a">>]
XStr_def_val == [t |-> "haystack::XStr", type |-> <<"T">>, val |-> <<"p">>]

(***************************************************************************)
(* Call results                                                            *)
(***************************************************************************)
\* a normal return; path lists the tests the body evaluated, in order
Ok(r) == [ok |-> TRUE, err |-> "", ret |-> r, path |-> <<>>]
\* an exception propagating to the caller
Raise(e) == [ok |-> FALSE, err |-> e, ret |-> None, path |-> <<>>]

\* ObjUtil.coerce(val, type) succeeds exactly when val is of that type
Fits(val, type) == val.t = type

(***************************************************************************)
(* Kind: the base class                                                    *)
(***************************************************************************)
\* Kind.__init__(name, type, displayName = name)
Kind_init(cls, name, type, dis) ==
  [cls |-> cls, name |-> name, type |-> type, displayName |-> dis, tag |-> None]

\* the method names the base Kind defines and dispatches
BaseMethods == {"def_val", "is_number", "is_ref", "is_x_str",
                "val_to_zinc", "val_to_json", "val_to_axon"}

\* Kind.def_val: type.make with no arguments, which each of the five
\* backing types rejects because its constructor requires arguments
Kind_def_val(k) == Raise("ArgErr")
\* Kind.is_number / is_ref / is_x_str
Kind_is(k) == Ok(FALSE)
\* Kind.val_to_zinc / val_to_json / val_to_axon: generic stringification of
\* a value of the Kind's backing type; any other value is a type mismatch
Kind_val_to_str(k, val) ==
  IF ~Fits(val, k.type) THEN Raise("CastErr") ELSE Ok(ObjUtil_to_str(val))

(***************************************************************************)
(* NumberKind                                                              *)
(***************************************************************************)
NumberKind_init == Kind_init("NumberKind", S_Number, "haystack::Number", S_Number)

NumberKind_is_number(k) == Ok(TRUE)

NumberKind_def_val(k) == Ok(Number_def_val)

NumberKind_val_to_json(k, val) ==
  IF ~Fits(val, "haystack::Number") THEN Raise("CastErr")
  ELSE Ok(Number_to_json(val))

\* the NaN test written as a float comparison, which is never true
NumberKind_val_to_axon_eqnan(k, val) ==
  IF ~Fits(val, "haystack::Number") THEN Raise("CastErr")
  ELSE LET f == val.float IN
    IF FloatEq(f, NaN)
      THEN [Ok(<<"n", "a", "n", "(", ")">>) EXCEPT !.path = <<"is_na_n">>]
    ELSE IF FloatEq(f, PosInf)
      THEN [Ok(<<"p", "o", "s", "I", "n", "f", "(", ")">>)
              EXCEPT !.path = <<"is_na_n", "eq_pos_inf">>]
    ELSE IF FloatEq(f, NegInf)
      THEN [Ok(<<"n", "e", "g", "I", "n", "f", "(", ")">>)
              EXCEPT !.path = <<"is_na_n", "eq_pos_inf", "eq_neg_inf">>]
    ELSE [Ok(ObjUtil_to_str(val))
              EXCEPT !.path = <<"is_na_n", "eq_pos_inf", "eq_neg_inf", "to_str">>]

NumberKind_val_to_axon(k, val) ==
  IF ~Fits(val, "haystack::Number") THEN Raise("CastErr")
  ELSE LET f == val.float IN
    IF Float_is_na_n(f)
      THEN [Ok(<<"n", "a", "n", "(", ")">>) EXCEPT !.path = <<"is_na_n">>]
    ELSE IF FloatEq(f, PosInf)
      THEN [Ok(<<"p", "o", "s", "I", "n", "f", "(", ")">>)
              EXCEPT !.path = <<"is_na_n", "eq_pos_inf">>]
    ELSE IF FloatEq(f, NegInf)
      THEN [Ok(<<"n", "e", "g", "I", "n", "f", "(", ")">>)
              EXCEPT !.path = <<"is_na_n", "eq_pos_inf", "eq_neg_inf">>]
    ELSE [Ok(ObjUtil_to_str(val))
              EXCEPT !.path = <<"is_na_n", "eq_pos_inf", "eq_neg_inf", "to_str">>]

(***************************************************************************)
(* RefKind                                                                 *)
(***************************************************************************)
\* RefKind.__init__
RefKind_init == [Kind_init("RefKind", S_Ref, "xeto::Ref", S_Ref) EXCEPT !.tag = None]

\* RefKind._ctor_init on a blank instance
RefKind_ctor_init == [cls |-> "RefKind", name |-> None, type |-> "", displayName |-> None,
                      tag |-> None]

\* the body without its last assignment, self._tag = tag
RefKind_makeTag_body_notag(inst, tag) ==
  [Kind_init("RefKind", S_Ref, "xeto::Ref", (S_Ref \o <<"<">> \o tag) \o <<">">>)
     EXCEPT !.tag = inst.tag]

\* RefKind._makeTag_body
RefKind_makeTag_body(inst, tag) ==
  [Kind_init("RefKind", S_Ref, "xeto::Ref", (S_Ref \o <<"<">> \o tag) \o <<">">>)
     EXCEPT !.tag = tag]

\* RefKind.makeTag: a new instance, initialised and then specialised
RefKind_makeTag(tag) == RefKind_makeTag_body(RefKind_ctor_init, tag)

\* toTagOf specialising the receiver in place and returning it
RefKind_toTagOf_inplace(heap, i, tag) ==
  [heap |-> [heap EXCEPT ![i] = RefKind_makeTag_body(heap[i], tag)], ret |-> i]

\* RefKind.toTagOf: the heap after the call and the object returned; the
\* receiver is only used to reach makeTag
RefKind_toTagOf(heap, i, tag) ==
  [heap |-> Append(heap, RefKind_makeTag(tag)), ret |-> Len(heap) + 1]

\* RefKind.tag(_val_): the receiver after the call
RefKind_tag_set(k, val) == IF val = None THEN k ELSE [k EXCEPT !.tag = val]
\* RefKind.tag(_val_): the value returned
RefKind_tag_ret(k, val) == IF val = None THEN k.tag ELSE None

RefKind_isRef(k) == Ok(TRUE)

RefKind_defVal(k) == Ok(Ref_defVal)

RefKind_valToZinc(k, val) ==
  IF ~Fits(val, "xeto::Ref") THEN Raise("CastErr") ELSE Ok(Ref_toZinc(val))

RefKind_valToJson(k, val) ==
  IF ~Fits(val, "xeto::Ref") THEN Raise("CastErr") ELSE Ok(Ref_toJson(val))

\* valToAxon returning what valToStr's plain string form would
RefKind_valToAxon_str(k, val) ==
  IF ~Fits(val, "xeto::Ref") THEN Raise("CastErr") ELSE Ok(Ref_toStr(val))

RefKind_valToAxon(k, val) ==
  IF ~Fits(val, "xeto::Ref") THEN Raise("CastErr") ELSE Ok(Ref_toCode(val))

(***************************************************************************)
(* CoordKind                                                               *)
(***************************************************************************)
CoordKind_init == Kind_init("CoordKind", S_Coord, "haystack::Coord", S_Coord)

CoordKind_defVal(k) == Ok(Coord_defVal)

CoordKind_valToJson(k, val) ==
  IF ~Fits(val, "haystack::Coord") THEN Raise("CastErr")
  ELSE Ok(<<"c", ":">> \o Coord_toLatLgnStr(val))

\* valToAxon wrapping the Coord's own string form
CoordKind_valToAxon_str(k, val) ==
  IF ~Fits(val, "haystack::Coord") THEN Raise("CastErr")
  ELSE Ok((<<"c", "o", "o", "r", "d", "(">> \o Coord_toStr(val)) \o <<")">>)

CoordKind_valToAxon(k, val) ==
  IF ~Fits(val, "haystack::Coord") THEN Raise("CastErr")
  ELSE Ok((<<"c", "o", "o", "r", "d", "(">> \o Coord_toLatLgnStr(val)) \o <<")">>)

(***************************************************************************)
(* BinKind                                                                 *)
(***************************************************************************)
BinKind_init == Kind_init("BinKind", S_Bin, "haystack::Bin", S_Bin)

BinKind_is_x_str(k) == Ok(TRUE)

BinKind_def_val(k) == Ok(Bin_def_val)

\* val_to_zinc embedding the mime string raw between the quotes
BinKind_val_to_zinc_raw(k, val) ==
  IF ~Fits(val, "haystack::Bin") THEN Raise("CastErr")
  ELSE Ok((<<"B", "i", "n", "(", "\"">> \o val.mime) \o <<"\"", ")">>)

BinKind_val_to_zinc(k, val) ==
  IF ~Fits(val, "haystack::Bin") THEN Raise("CastErr")
  ELSE Ok((<<"B", "i", "n", "(">> \o Str_to_code(val.mime)) \o <<")">>)

\* val_to_json without the coerce, stringifying whatever it is given
BinKind_val_to_json_nocoerce(k, val) == Ok(<<"b", ":">> \o ObjUtil_to_str(val))

BinKind_val_to_json(k, val) ==
  IF ~Fits(val, "haystack::Bin") THEN Raise("CastErr")
  ELSE Ok(<<"b", ":">> \o val.mime)

\* val_to_axon separating the two arguments with ", " as XStrKind does
BinKind_val_to_axon_space(k, val) ==
  IF ~Fits(val, "haystack::Bin") THEN Raise("CastErr")
  ELSE Ok((<<"x", "s", "t", "r", "(", "\"", "B", "i", "n", "\"", ",", " ">>
             \o Str_to_code(val.mime)) \o <<")">>)

BinKind_val_to_axon(k, val) ==
  IF ~Fits(val, "haystack::Bin") THEN Raise("CastErr")
  ELSE Ok((<<"x", "s", "t", "r", "(", "\"", "B", "i", "n", "\"", ",">>
             \o Str_to_code(val.mime)) \o <<")">>)

(***************************************************************************)
(* XStrKind                                                                *)
(***************************************************************************)
XStrKind_init == Kind_init("XStrKind", S_XStr, "haystack::XStr", S_XStr)

XStrKind_is_x_str(k) == Ok(TRUE)

XStrKind_def_val(k) == Ok(XStr_def_val)

\* val_to_json under Bin's prefix
XStrKind_val_to_json_bprefix(k, val) ==
  IF ~Fits(val, "haystack::XStr") THEN Raise("CastErr")
  ELSE Ok(((<<"b", ":">> \o val.type) \o <<":">>) \o val.val)

\* val_to_json without the delimiter between type name and payload
XStrKind_val_to_json_nodelim(k, val) ==
  IF ~Fits(val, "haystack::XStr") THEN Raise("CastErr")
  ELSE Ok((<<"x", ":">> \o val.type) \o val.val)

XStrKind_val_to_json(k, val) ==
  IF ~Fits(val, "haystack::XStr") THEN Raise("CastErr")
  ELSE Ok(((<<"x", ":">> \o val.type) \o <<":">>) \o val.val)

\* val_to_axon with the payload copied raw between quotes
XStrKind_val_to_axon_raw(k, val) ==
  IF ~Fits(val, "haystack::XStr") THEN Raise("CastErr")
  ELSE Ok((((<<"x", "s", "t", "r", "(">> \o Str_to_code(val.type)) \o <<",", " ">>)
             \o (<<"\"">> \o val.val \o <<"\"">>)) \o <<")">>)

XStrKind_val_to_axon(k, val) ==
  IF ~Fits(val, "haystack::XStr") THEN Raise("CastErr")
  ELSE Ok((((<<"x", "s", "t", "r", "(">> \o Str_to_code(val.type)) \o <<",", " ">>)
             \o Str_to_code(val.val)) \o <<")">>)

(***************************************************************************)
(* Method resolution                                                       *)
(***************************************************************************)
\* the methods each class defines itself, under the names of its source
Methods(cls) ==
  CASE cls = "NumberKind" -> {"is_number", "def_val", "val_to_dis", "val_to_json", "val_to_axon"}
    [] cls = "RefKind" -> {"tag", "toTagOf", "isRef", "defVal", "valToStr", "valToDis",
                           "valToZinc", "valToJson", "valToAxon"}
    [] cls = "CoordKind" -> {"defVal", "valToJson", "valToAxon"}
    [] cls = "BinKind" -> {"is_x_str", "def_val", "val_to_zinc", "val_to_json", "val_to_axon"}
    [] OTHER -> {"is_x_str", "def_val", "val_to_json", "val_to_axon"}

DefValNames == {"def_val", "defVal"}
IsNames == {"is_number", "isNumber", "is_ref", "isRef", "is_x_str", "isXStr"}
EncNames == {"val_to_zinc", "valToZinc", "val_to_json", "valToJson",
             "val_to_axon", "valToAxon"}

\* attribute lookup on a Kind object: the class's own method, else the
\* base class's, else AttributeError
Resolve(cls, name) == IF name \in Methods(cls) THEN "own"
                      ELSE IF name \in BaseMethods THEN "base"
                      ELSE "none"

\* k.<name>() for a default-value name
InvokeDefVal(k, name) ==
  CASE Resolve(k.cls, name) = "none" -> Raise("AttributeError")
    [] Resolve(k.cls, name) = "base" -> Kind_def_val(k)
    [] OTHER ->
       CASE k.cls = "NumberKind" -> NumberKind_def_val(k)
         [] k.cls = "RefKind" -> RefKind_defVal(k)
         [] k.cls = "CoordKind" -> CoordKind_defVal(k)
         [] k.cls = "BinKind" -> BinKind_def_val(k)
         [] OTHER -> XStrKind_def_val(k)

\* k.<name>() for a classification predicate name
InvokeIs(k, name) ==
  CASE Resolve(k.cls, name) = "none" -> Raise("AttributeError")
    [] Resolve(k.cls, name) = "base" -> Kind_is(k)
    [] OTHER ->
       CASE k.cls = "NumberKind" -> NumberKind_is_number(k)
         [] k.cls = "RefKind" -> RefKind_isRef(k)
         [] k.cls = "BinKind" -> BinKind_is_x_str(k)
         [] OTHER -> XStrKind_is_x_str(k)

\* k.<name>(val) for an encoder name
InvokeEnc(k, name, val) ==
  CASE Resolve(k.cls, name) = "none" -> Raise("AttributeError")
    [] Resolve(k.cls, name) = "base" -> Kind_val_to_str(k, val)
    [] OTHER ->
       CASE k.cls = "NumberKind" /\ name = "val_to_json" -> NumberKind_val_to_json(k, val)
         [] k.cls = "NumberKind" /\ name = "val_to_axon" -> NumberKind_val_to_axon(k, val)
         [] k.cls = "RefKind" /\ name = "valToZinc" -> RefKind_valToZinc(k, val)
         [] k.cls = "RefKind" /\ name = "valToJson" -> RefKind_valToJson(k, val)
         [] k.cls = "RefKind" /\ name = "valToAxon" -> RefKind_valToAxon(k, val)
         [] k.cls = "CoordKind" /\ name = "valToJson" -> CoordKind_valToJson(k, val)
         [] k.cls = "CoordKind" /\ name = "valToAxon" -> CoordKind_valToAxon(k, val)
         [] k.cls = "BinKind" /\ name = "val_to_zinc" -> BinKind_val_to_zinc(k, val)
         [] k.cls = "BinKind" /\ name = "val_to_json" -> BinKind_val_to_json(k, val)
         [] k.cls = "BinKind" /\ name = "val_to_axon" -> BinKind_val_to_axon(k, val)
         [] k.cls = "XStrKind" /\ name = "val_to_json" -> XStrKind_val_to_json(k, val)
         [] OTHER -> XStrKind_val_to_axon(k, val)

(***************************************************************************)
(* State                                                                   *)
(***************************************************************************)
VARIABLES
  kinds,   \* the Kind objects constructed so far, by identity (index)
  entries, \* CryptoKeyStore._entries: alias -> entry, in insertion order
  client,  \* the with-statement over a client: where it is and what it did
  grid,    \* a Grid: its column names and its rows, one cell per column
  units,   \* the units defined so far, each a name and a symbol
  last     \* the last call: operation, name used, receiver, argument, outcome

vars == <<kinds, entries, client, grid, units, last>>

Call(op, name, i, arg, res) ==
  [op |-> op, name |-> name, k |-> i, arg |-> arg,
   ok |-> res.ok, err |-> res.err, ret |-> res.ret, path |-> res.path]

\* the five singletons, each built by its class's make(), and a key store
\* as CryptoKeyStore.__init__ leaves it: nothing loaded, no host key generated
Init ==
  /\ kinds = <<NumberKind_init, RefKind_init, CoordKind_init, BinKind_init, XStrKind_init>>
  /\ entries = <<>>
  /\ client = [pc |-> "none", cls |-> "", withs |-> 0, calls |-> 0,
               body |-> "", closes |-> 0, raised |-> ""]
  /\ grid = [cols |-> <<>>, rows |-> <<>>]
  /\ units = {<<<<"m", "e", "t", "e", "r">>, <<"m">>>>}
  /\ last = Call("init", "", 0, None, Ok(None))

\* k.def_val() / k.defVal()
DefVal(i, name) ==
  /\ last' = Call("def_val", name, i, None, InvokeDefVal(kinds[i], name))
  /\ UNCHANGED <<kinds, entries, client, grid, units>>

\* k.is_number() / k.is_ref() / k.is_x_str() and their camel-case spellings
Classify(i, name) ==
  /\ last' = Call("is", name, i, None, InvokeIs(kinds[i], name))
  /\ UNCHANGED <<kinds, entries, client, grid, units>>

\* k.val_to_zinc(v) / k.val_to_json(v) / k.val_to_axon(v) and their
\* camel-case spellings
Encode(i, name, v) ==
  /\ last' = Call("enc", name, i, v, InvokeEnc(kinds[i], name, v))
  /\ UNCHANGED <<kinds, entries, client, grid, units>>

\* k.toTagOf(t) on a Ref kind: a new Kind object enters the heap
ToTagOf(i, t) ==
  /\ kinds[i].cls = "RefKind"
  /\ Len(kinds) < MaxKinds
  /\ kinds' = RefKind_toTagOf(kinds, i, t).heap
  /\ last' = Call("toTagOf", "toTagOf", i, t, Ok(RefKind_toTagOf(kinds, i, t).ret))
  /\ UNCHANGED <<entries, client, grid, units>>

\* k.tag() on a Ref kind
TagGet(i) ==
  /\ kinds[i].cls = "RefKind"
  /\ last' = Call("tag", "tag", i, None, Ok(RefKind_tag_ret(kinds[i], None)))
  /\ UNCHANGED <<kinds, entries, client, grid, units>>

\* k.tag(v) on a Ref kind, v a string
TagSet(i, v) ==
  /\ kinds[i].cls = "RefKind"
  /\ kinds' = [kinds EXCEPT ![i] = RefKind_tag_set(kinds[i], v)]
  /\ last' = Call("tag", "tag", i, v, Ok(RefKind_tag_ret(kinds[i], v)))
  /\ UNCHANGED <<entries, client, grid, units>>

\* the life of the Kind objects: defaults, classification, specialization, tag
Next ==
  \/ \E i \in DOMAIN kinds, name \in DefValNames : DefVal(i, name)
  \/ \E i \in DOMAIN kinds, name \in IsNames : Classify(i, name)
  \/ \E i \in DOMAIN kinds, t \in Tags : ToTagOf(i, t)
  \/ \E i \in DOMAIN kinds : TagGet(i)
  \/ \E i \in DOMAIN kinds, v \in SetTags : TagSet(i, v)

Spec == Init /\ [][Next]_vars

\* the codecs: every encoder name on every Kind with every sample value
NextCodec == \E i \in DOMAIN kinds, name \in EncNames, v \in Values : Encode(i, name, v)

SpecCodec == Init /\ [][NextCodec]_vars

(***************************************************************************)
(* Number built from a Duration                                            *)
(***************************************************************************)
\* Duration ticks are 64-bit nanosecond counts; a count is kept as sign and
\* magnitude hi * 10^9 + lo with 0 <= lo < 10^9
Giga == 1000000000
Dur(neg, hi, lo) == [neg |-> neg, hi |-> hi, lo |-> lo]
\* Duration.make(ticks) for the literals of _make_duration_body
Dur_1sec == Dur(FALSE, 1, 0)
Dur_1min == Dur(FALSE, 60, 0)
Dur_1hr == Dur(FALSE, 3600, 0)
Dur_1day == Dur(FALSE, 86400, 0)

\* Duration.abs_
Dur_abs(d) == [d EXCEPT !.neg = FALSE]
\* -d
Dur_neg(d) == IF d.hi = 0 /\ d.lo = 0 THEN d ELSE [d EXCEPT !.neg = ~d.neg]

MagLt(a, b) == a.hi < b.hi \/ (a.hi = b.hi /\ a.lo < b.lo)
\* ObjUtil.compare_lt on Durations: order of the signed tick counts
Dur_lt(a, b) == CASE a.neg /\ ~b.neg -> TRUE
                  [] ~a.neg /\ b.neg -> FALSE
                  [] ~a.neg /\ ~b.neg -> MagLt(a, b)
                  [] OTHER -> MagLt(b, a)

\* Number.ms / sec / mins / hr / day, by symbol
U_ms == <<"m", "s">>
U_sec == <<"s", "e", "c">>
U_min == <<"m", "i", "n">>
U_hr == <<"h", "r">>
U_day == <<"d", "a", "y">>
DurUnits == {U_ms, U_sec, U_min, U_hr, U_day}

\* Unit.scale, in thousandths of a second
UnitScaleMs(u) == CASE u = U_ms -> 1
                    [] u = U_sec -> 1000
                    [] u = U_min -> 60000
                    [] u = U_hr -> 3600000
                    [] OTHER -> 86400000

\* the durations tried: zero and each threshold, MaxDelta ticks either side,
\* with both signs
DurMags ==
  {Dur(FALSE, 0, d) : d \in 0..MaxDelta}
    \cup {Dur(FALSE, h, d) : h \in {1, 60, 3600, 86400}, d \in 0..MaxDelta}
    \cup {Dur(FALSE, h - 1, Giga - d) : h \in {1, 60, 3600, 86400}, d \in 1..MaxDelta}
Durations == DurMags \cup {Dur_neg(d) : d \in DurMags}

\* the unit selection comparing the signed duration, without abs_
InferUnit_signed(dur) ==
  IF Dur_lt(dur, Dur_1sec) THEN U_ms
  ELSE IF Dur_lt(dur, Dur_1min) THEN U_sec
  ELSE IF Dur_lt(dur, Dur_1hr) THEN U_min
  ELSE IF Dur_lt(dur, Dur_1day) THEN U_hr
  ELSE U_day

\* the unit selection with each threshold still counted to the smaller unit
InferUnit_le(dur) ==
  LET abs_dur == Dur_abs(dur)
      Le(a, b) == Dur_lt(a, b) \/ a = b
  IN IF Le(abs_dur, Dur_1sec) THEN U_ms
     ELSE IF Le(abs_dur, Dur_1min) THEN U_sec
     ELSE IF Le(abs_dur, Dur_1hr) THEN U_min
     ELSE IF Le(abs_dur, Dur_1day) THEN U_hr
     ELSE U_day

\* _make_duration_body_fixed, the branch taken when unit is None
InferUnit(dur) ==
  LET abs_dur == Dur_abs(dur)
  IN IF Dur_lt(abs_dur, Dur_1sec) THEN U_ms
     ELSE IF Dur_lt(abs_dur, Dur_1min) THEN U_sec
     ELSE IF Dur_lt(abs_dur, Dur_1hr) THEN U_min
     ELSE IF Dur_lt(abs_dur, Dur_1day) THEN U_hr
     ELSE U_day

\* _make_duration_body_fixed: the Number's fields after the call; the float
\* is the quotient (ticks / 1.0E9) / unit.scale, kept as its two operands
Number_make_duration_body(dur, unit) ==
  LET u == IF unit = None THEN InferUnit(dur) ELSE unit
  IN [float |-> [ticks |-> dur, scaleMs |-> UnitScaleMs(u)], unit |-> u]

\* Number.make_duration(dur, unit)
MakeDuration(dur, unit) ==
  /\ last' = Call("make_duration", "_make_duration_body", 0,
                  [dur |-> dur, unit |-> unit],
                  Ok(Number_make_duration_body(dur, unit)))
  /\ UNCHANGED <<kinds, entries, client, grid, units>>

NextDur == \E dur \in Durations, unit \in DurUnits \cup {None} : MakeDuration(dur, unit)

SpecDur == Init /\ [][NextDur]_vars

(***************************************************************************)
(* CryptoKeyStore                                                          *)
(***************************************************************************)
\* aliases differing in case only, and an unrelated one
Aliases == {<<"h">>, <<"H">>, <<"k">>}
\* entries: _PyPrivKeyEntry(priv, chain) and _PyTrustEntry(cert)
PrivKeys == {"k1", "k2"}
Certs == {"c1"}
PrivEntry(priv, chain) == <<"priv", priv, chain>>
TrustEntry(cert) == <<"trust", cert>>
KeyEntries == {PrivEntry(p, c) : p \in PrivKeys, c \in Certs}
                \cup {TrustEntry(c) : c \in Certs}

\* str.lower()
LowerCh(ch) == CASE ch = "H" -> "h" [] ch = "K" -> "k" [] OTHER -> ch
RECURSIVE LowerStr(_)
LowerStr(s) == IF s = <<>> THEN <<>> ELSE <<LowerCh(Head(s))>> \o LowerStr(Tail(s))

\* positions of a dict, in iteration order, whose key satisfies a test
KeyIdx(d, key) == {i \in DOMAIN d : d[i][1] = key}
LowerIdx(d, alias) == {i \in DOMAIN d : LowerStr(d[i][1]) = LowerStr(alias)}
MinOf(S) == CHOOSE i \in S : \A j \in S : i <= j

\* d[key] = val on a Python dict: an existing key keeps its position
Dict_set(d, key, val) ==
  IF KeyIdx(d, key) # {}
    THEN [d EXCEPT ![MinOf(KeyIdx(d, key))] = <<key, val>>]
    ELSE Append(d, <<key, val>>)

\* del d[key] for the key at position i
Dict_del(d, i) == SubSeq(d, 1, i - 1) \o SubSeq(d, i + 1, Len(d))

\* get comparing the keys as they are stored, without lower()
KeyStore_get_exact(d, alias, checked) ==
  IF KeyIdx(d, alias) # {} THEN Ok(d[MinOf(KeyIdx(d, alias))][2])
  ELSE IF checked THEN Raise("Err")
  ELSE Ok(None)

\* CryptoKeyStore.get: the value of the first key equal to alias ignoring case
KeyStore_get(d, alias, checked) ==
  IF LowerIdx(d, alias) # {} THEN Ok(d[MinOf(LowerIdx(d, alias))][2])
  ELSE IF checked THEN Raise("Err")
  ELSE Ok(None)

\* CryptoKeyStore.contains_alias
KeyStore_contains_alias(d, alias) == Ok(KeyStore_get(d, alias, FALSE).ret # None)

\* CryptoKeyStore.remove: the first key equal to alias ignoring case is
\* deleted and the loop returns
KeyStore_remove(d, alias) ==
  IF LowerIdx(d, alias) # {} THEN Dict_del(d, MinOf(LowerIdx(d, alias))) ELSE d

\* CryptoKeyStore.aliases
KeyStore_aliases(d) == [i \in DOMAIN d |-> d[i][1]]

\* store.get(alias, checked)
Get(alias, checked) ==
  /\ last' = Call("get", "get", 0, [alias |-> alias, checked |-> checked],
                  KeyStore_get(entries, alias, checked))
  /\ UNCHANGED <<kinds, entries, client, grid, units>>

\* store.contains_alias(alias)
ContainsAlias(alias) ==
  /\ last' = Call("contains_alias", "contains_alias", 0,
                  [alias |-> alias, checked |-> FALSE],
                  KeyStore_contains_alias(entries, alias))
  /\ UNCHANGED <<kinds, entries, client, grid, units>>

\* store.set_priv_key(alias, priv, chain)
SetPrivKey(alias, priv, chain) ==
  /\ entries' = Dict_set(entries, alias, PrivEntry(priv, chain))
  /\ last' = Call("set", "set_priv_key", 0,
                  [alias |-> alias, entry |-> PrivEntry(priv, chain)], Ok(None))
  /\ UNCHANGED <<kinds, client, grid, units>>

\* store.set_trust(alias, cert)
SetTrust(alias, cert) ==
  /\ entries' = Dict_set(entries, alias, TrustEntry(cert))
  /\ last' = Call("set", "set_trust", 0,
                  [alias |-> alias, entry |-> TrustEntry(cert)], Ok(None))
  /\ UNCHANGED <<kinds, client, grid, units>>

\* store.set_(alias, entry)
Set(alias, entry) ==
  /\ entries' = Dict_set(entries, alias, entry)
  /\ last' = Call("set", "set_", 0, [alias |-> alias, entry |-> entry], Ok(None))
  /\ UNCHANGED <<kinds, client, grid, units>>

\* store.remove(alias)
Remove(alias) ==
  /\ entries' = KeyStore_remove(entries, alias)
  /\ last' = Call("remove", "remove", 0, [alias |-> alias, checked |-> FALSE], Ok(None))
  /\ UNCHANGED <<kinds, client, grid, units>>

\* store.size()
Size ==
  /\ last' = Call("size", "size", 0, None, Ok(Len(entries)))
  /\ UNCHANGED <<kinds, entries, client, grid, units>>

\* store.aliases()
AliasesOf ==
  /\ last' = Call("aliases", "aliases", 0, None, Ok(KeyStore_aliases(entries)))
  /\ UNCHANGED <<kinds, entries, client, grid, units>>

NextStore ==
  \/ \E alias \in Aliases, checked \in BOOLEAN : Get(alias, checked)
  \/ \E alias \in Aliases : ContainsAlias(alias)
  \/ \E alias \in Aliases, priv \in PrivKeys, chain \in Certs : SetPrivKey(alias, priv, chain)
  \/ \E alias \in Aliases, cert \in Certs : SetTrust(alias, cert)
  \/ \E alias \in Aliases, entry \in KeyEntries : Set(alias, entry)
  \/ \E alias \in Aliases : Remove(alias)
  \/ Size
  \/ AliasesOf

SpecStore == Init /\ [][NextStore]_vars

(***************************************************************************)
(* CryptoExt                                                               *)
(***************************************************************************)
S_https == <<"h", "t", "t", "p", "s">>
S_Https == <<"H", "t", "t", "p", "s">>
\* aliases of the extension's keystore: the https alias in two spellings
ExtAliases == {S_https, S_Https, <<"k">>}

\* ObjUtil.as_(entry, "crypto::PrivKeyEntry"): the entry if it is one, else None
ObjUtil_as_PrivKeyEntry(entry) == IF entry # None /\ entry[1] = "priv" THEN entry ELSE None

\* the contents of a key store handed to a caller, as one value
RECURSIVE KeyStore_contents(_)
KeyStore_contents(d) ==
  IF d = <<>> THEN <<>>
  ELSE d[1][1] \o <<"=">> \o d[1][2] \o <<";">> \o KeyStore_contents(Tail(d))

\* Crypto.cur().load_key_store().set_("https", entry): a new store with one entry
NewKeyStore(entry) == <<"KeyStore">> \o KeyStore_contents(Dict_set(<<>>, S_https, entry))

\* CryptoExt.https_key
CryptoExt_https_key(d, checked) ==
  LET entry == ObjUtil_as_PrivKeyEntry(KeyStore_get(d, S_https, FALSE).ret)
  IN IF entry # None THEN Ok(NewKeyStore(entry))
     ELSE IF checked THEN Raise("ArgErr")
     ELSE Ok(None)

\* ext.https_key(checked)
HttpsKey(checked) ==
  /\ last' = Call("https_key", "https_key", 0, [alias |-> S_https, checked |-> checked],
                  CryptoExt_https_key(entries, checked))
  /\ UNCHANGED <<kinds, entries, client, grid, units>>

\* the extension's keystore is filled and emptied through its own operations
NextExt ==
  \/ \E checked \in BOOLEAN : HttpsKey(checked)
  \/ \E alias \in ExtAliases, priv \in PrivKeys, chain \in Certs : SetPrivKey(alias, priv, chain)
  \/ \E alias \in ExtAliases, cert \in Certs : SetTrust(alias, cert)
  \/ \E alias \in ExtAliases : Remove(alias)

SpecExt == Init /\ [][NextExt]_vars

(***************************************************************************)
(* HaystackClient and the context managers                                 *)
(***************************************************************************)
MaxWiths == 3
MaxCalls == 2

\* client fields: cls is "" while no client is open; body and raised name the
\* exception the body raised and the one that left the with-statement, ""
\* for none

\* the two context managers and the class each opens
ClientFns == {"open_haystack_client", "open_haxall_client"}
ClientCls(fn) == IF fn = "open_haxall_client" THEN "HaxallClient" ELSE "HaystackClient"
\* operations the body of the with-statement calls on the client
ClientOps(cls) == {"about", "read_all"} \cup (IF cls = "HaxallClient" THEN {"eval"} ELSE {})

\* HaystackClient.open / HaxallClient.open: the connection is made or the
\* failure of FanClient.open_ propagates
HaystackClient_open(cls, opens) == IF opens THEN Ok(cls) ELSE Raise("IOErr")

\* close letting the failure of the underlying close out
HaystackClient_close_raise(fails) == IF fails THEN Raise("IOErr") ELSE Ok(None)

\* HaystackClient.close: try: self._client.close() except: pass
HaystackClient_close(fails) == Ok(None)

\* with open_..._client(...): the line before the try
WithOpen(fn, opens) ==
  /\ client.pc \in {"none", "left"}
  /\ client.withs < MaxWiths
  /\ LET r == HaystackClient_open(ClientCls(fn), opens)
     IN /\ client' = [pc |-> IF r.ok THEN "body" ELSE "left",
                      cls |-> IF r.ok THEN r.ret ELSE "",
                      withs |-> client.withs + 1, calls |-> 0, body |-> "",
                      closes |-> 0, raised |-> r.err]
        /\ last' = Call("open", fn, 0, opens, r)
  /\ UNCHANGED <<kinds, entries, grid, units>>

\* a call on the client inside the body; a failure leaves the body
BodyCall(op, fails) ==
  /\ client.pc = "body"
  /\ op \in ClientOps(client.cls)
  /\ client.calls < MaxCalls
  /\ client' = IF fails THEN [client EXCEPT !.pc = "finally", !.body = "Err"]
                        ELSE [client EXCEPT !.calls = @ + 1]
  /\ last' = Call("call", op, 0, fails, IF fails THEN Raise("Err") ELSE Ok(None))
  /\ UNCHANGED <<kinds, entries, grid, units>>

\* the body runs to its end
BodyEnd ==
  /\ client.pc = "body"
  /\ client' = [client EXCEPT !.pc = "finally"]
  /\ last' = Call("end", "", 0, None, Ok(None))
  /\ UNCHANGED <<kinds, entries, grid, units>>

\* finally: client.close(); what leaves the with-statement is the failure of
\* the finally clause if it has one, else the one the body raised
WithClose(fails) ==
  /\ client.pc = "finally"
  /\ LET r == HaystackClient_close(fails)
     IN /\ client' = [client EXCEPT !.pc = "left", !.closes = @ + 1,
                                    !.raised = IF r.ok THEN client.body ELSE r.err]
        /\ last' = Call("close", "close", 0, fails, r)
  /\ UNCHANGED <<kinds, entries, grid, units>>

NextClient ==
  \/ \E fn \in ClientFns, opens \in BOOLEAN : WithOpen(fn, opens)
  \/ \E op \in {"about", "read_all", "eval"}, fails \in BOOLEAN : BodyCall(op, fails)
  \/ BodyEnd
  \/ \E fails \in BOOLEAN : WithClose(fails)

SpecClient == Init /\ [][NextClient]_vars

(***************************************************************************)
(* Grid.to_py                                                              *)
(***************************************************************************)
MaxRows == 2

\* what a cell lookup row.get(name) can meet: a null, a lookup that raises,
\* the NA singleton, a Number, a Str
CellNull == None
CellFail == <<"raise">>
CellNA == <<"NA">>
CellNumber == <<"n", "1">>
CellStr == <<"s", "x">>
Cells == {CellNull, CellFail, CellNA, CellNumber, CellStr}

\* column names, unique within a grid
ColNames == <<"a", "b">>
GridCols == {SubSeq(ColNames, 1, n) : n \in 0..2}
\* the rows a grid of these columns can hold
GridRows(cols) == [1..Len(cols) -> Cells]

\* row.get(name)
Row_get(row, j) == IF row[j] = CellFail THEN Raise("Err") ELSE Ok(row[j])

\* val.to_py() where val has one: NA gives None, a Number its float; a Str
\* has no to_py and is kept
Val_to_py(val) ==
  IF val = CellNA THEN None
  ELSE IF val[1] = "n" THEN <<"f", val[2]>>
  ELSE val

\* the inner loop putting a key for every column, null or not
RECURSIVE grid_to_py_row_allkeys(_, _, _, _)
grid_to_py_row_allkeys(cols, row, deep, j) ==
  IF j > Len(cols) THEN <<>>
  ELSE LET r == Row_get(row, j)
           val == IF r.ok THEN r.ret ELSE None
       IN <<<<cols[j], IF deep THEN Val_to_py(val) ELSE val>>>>
            \o grid_to_py_row_allkeys(cols, row, deep, j + 1)

\* grid_to_py, the inner loop from column j on: the row's dict as its items
\* in insertion order
RECURSIVE grid_to_py_row(_, _, _, _)
grid_to_py_row(cols, row, deep, j) ==
  IF j > Len(cols) THEN <<>>
  ELSE LET r == Row_get(row, j)
           val == IF r.ok THEN r.ret ELSE None
       IN (IF val # None
             THEN <<<<cols[j], IF deep THEN Val_to_py(val) ELSE val>>>>
             ELSE <<>>)
            \o grid_to_py_row(cols, row, deep, j + 1)

\* grid_to_py: one dict per row, appended in row order
grid_to_py(self, deep) ==
  [i \in 1..Len(self.rows) |-> grid_to_py_row(self.cols, self.rows[i], deep, 1)]

\* a new grid of the given columns, without rows
NewGrid(cols) ==
  /\ grid' = [cols |-> cols, rows |-> <<>>]
  /\ last' = Call("grid", "", 0, None, Ok(None))
  /\ UNCHANGED <<kinds, entries, client, units>>

\* one more row while the grid is built
AddRow(row) ==
  /\ Len(grid.rows) < MaxRows
  /\ grid' = [grid EXCEPT !.rows = Append(@, row)]
  /\ last' = Call("row", "", 0, None, Ok(None))
  /\ UNCHANGED <<kinds, entries, client, units>>

\* grid.to_py(deep)
GridToPy(deep) ==
  /\ last' = Call("to_py", "grid_to_py", 0, deep, Ok(grid_to_py(grid, deep)))
  /\ UNCHANGED <<kinds, entries, client, grid, units>>

NextGrid ==
  \/ \E cols \in GridCols : NewGrid(cols)
  \/ \E row \in GridRows(grid.cols) : AddRow(row)
  \/ \E deep \in BOOLEAN : GridToPy(deep)

SpecGrid == Init /\ [][NextGrid]_vars

(***************************************************************************)
(* Number.to_py / Number.from_py                                           *)
(***************************************************************************)
S_meter == <<"m", "e", "t", "e", "r">>
\* unit strings handed to from_py: a symbol, a name, and two unknown ones
UnitStrs == {<<"m">>, S_meter, <<"x">>, <<"y">>}

\* Python values: a bare float, or a tuple of a float and a unit string
PyFloat(f) == [tuple |-> FALSE, val |-> f, u |-> None]
PyTuple(f, u) == [tuple |-> TRUE, val |-> f, u |-> u]
PyVals == {PyFloat(f) : f \in Floats}
            \cup {PyTuple(f, u) : f \in Floats, u \in UnitStrs \cup {None}}

\* Unit.from_str(s, False): the unit of that name or symbol, None if unknown
Unit_from_str(db, s) ==
  IF \E unit \in db : unit[1] = s \/ unit[2] = s
    THEN CHOOSE unit \in db : unit[1] = s \/ unit[2] = s
    ELSE None

\* Unit.define(s): a new unit whose only id, and so its symbol, is s
Unit_define(s) == <<s, s>>

\* Number.make(float, unit): the magnitude and the unit, kept by its symbol
Number_make(f, unit) ==
  [t |-> "haystack::Number", float |-> f, unit |-> IF unit = None THEN None ELSE unit[2]]

\* number_to_py
number_to_py(self, with_unit) ==
  IF with_unit THEN PyTuple(self.float, self.unit) ELSE PyFloat(self.float)

\* the unit object from_py ends with, for the unit string it settled on
from_py_unit(db, u) ==
  IF u = None THEN None
  ELSE IF Unit_from_str(db, u) # None THEN Unit_from_str(db, u)
  ELSE Unit_define(u)

\* from_py keeping the unit argument when val is a tuple
number_from_py_argunit(db, val, unit) ==
  Ok(Number_make(val.val, from_py_unit(db, unit)))

\* number_from_py
number_from_py(db, val, unit) ==
  LET u == IF val.tuple THEN val.u ELSE unit
  IN Ok(Number_make(val.val, from_py_unit(db, u)))

\* n.to_py(with_unit)
ToPy(n, with_unit) ==
  /\ n.unit = None \/ \E unit \in units : unit[2] = n.unit
  /\ last' = Call("to_py", "number_to_py", 0, [n |-> n, with_unit |-> with_unit],
                  Ok(number_to_py(n, with_unit)))
  /\ UNCHANGED <<kinds, entries, client, grid, units>>

\* Number.from_py(val, unit); an unknown unit string leaves a new unit defined
FromPy(val, unit) ==
  /\ LET u == IF val.tuple THEN val.u ELSE unit
     IN units' = IF u # None /\ Unit_from_str(units, u) = None
                   THEN units \cup {Unit_define(u)} ELSE units
  /\ last' = Call("from_py", "number_from_py", 0, [val |-> val, unit |-> unit],
                  number_from_py(units, val, unit))
  /\ UNCHANGED <<kinds, entries, client, grid>>

NextPy ==
  \/ \E n \in [t : {"haystack::Number"}, float : Floats, unit : UnitStrs \cup {None}],
        with_unit \in BOOLEAN : ToPy(n, with_unit)
  \/ \E val \in PyVals, unit \in UnitStrs \cup {None} : FromPy(val, unit)

SpecPy == Init /\ [][NextPy]_vars

(***************************************************************************)
(* PlaintextScheme.on_server                                               *)
(***************************************************************************)
\* scheme names: PlaintextScheme and XPlaintextScheme
SchemeNames == {"plaintext", "x-plaintext"}
\* the scheme of the message received
MsgSchemes == {"hello", "plaintext", "x-plaintext"}
\* passwords and the secrets the server context holds
Passwords == {"", "p1", "p2"}
\* session tokens cx.login() hands out
Tokens == {"t1", "t2"}

\* AuthUtil.to_base64 / from_base64
AuthUtil_to_base64(str) == <<"b64", str>>
AuthUtil_from_base64(enc) == enc[2]
\* the messages: a scheme and the password parameter, encoded, or none
AuthMsgs == [scheme : MsgSchemes,
             password : {None} \cup {AuthUtil_to_base64(pw) : pw \in Passwords}]

\* AuthMsg.from_str(name): the challenge naming the scheme
AuthMsg_from_str(name) == <<"AuthMsg", name>>
\* AuthMsg.make(name, ["authToken": token])
AuthMsg_make(name, token) == <<"AuthMsg", name, "authToken", token>>

\* cx.auth_secret(given)
Cx_auth_secret(secret, given) == given = secret

\* a result with the calls made on the server context, in order
Traced(res, path) == [res EXCEPT !.path = path]

\* on_server logging in whatever auth_secret answered
PlaintextScheme_on_server_nocheck(name, msg, secret, token) ==
  IF msg.scheme = "hello" THEN Traced(Ok(AuthMsg_from_str(name)), <<>>)
  ELSE IF msg.password = None THEN Traced(Raise("Err"), <<>>)
  ELSE Traced(Ok(AuthMsg_make(name, token)), <<"auth_secret", "login">>)

\* PlaintextScheme.on_server
PlaintextScheme_on_server(name, msg, secret, token) ==
  IF msg.scheme = "hello" THEN Traced(Ok(AuthMsg_from_str(name)), <<>>)
  ELSE IF msg.password = None THEN Traced(Raise("Err"), <<>>)
  ELSE IF ~Cx_auth_secret(secret, AuthUtil_from_base64(msg.password))
    THEN Traced(Raise("AuthErr"), <<"auth_secret">>)
  ELSE Traced(Ok(AuthMsg_make(name, token)), <<"auth_secret", "login">>)

\* scheme.on_server(cx, msg), cx holding the user's secret and the token its
\* login would hand out
OnServer(name, msg, secret, token) ==
  /\ last' = Call("on_server", name, 0, [msg |-> msg, secret |-> secret, token |-> token],
                  PlaintextScheme_on_server(name, msg, secret, token))
  /\ UNCHANGED <<kinds, entries, client, grid, units>>

NextAuth == \E name \in SchemeNames, msg \in AuthMsgs, secret \in Passwords, token \in Tokens :
              OnServer(name, msg, secret, token)

SpecAuth == Init /\ [][NextAuth]_vars

(***************************************************************************)
(* Properties                                                              *)
(***************************************************************************)
IsEnc(cls, name, type) ==
  /\ last.op = "enc"
  /\ last.name = name
  /\ kinds[last.k].cls = cls
  /\ last.arg.t = type

S_nan == <<"n", "a", "n", "(", ")">>
S_posInf == <<"p", "o", "s", "I", "n", "f", "(", ")">>
S_negInf == <<"n", "e", "g", "I", "n", "f", "(", ")">>

\* C1: NumberKind.val_to_axon returns "nan()" for a NaN magnitude, "posInf()"
\* for positive infinity, "negInf()" for negative infinity and the Number's
\* default string form for every other magnitude; a NaN input is decided by
\* the NaN test alone and reaches neither infinity comparison nor the default.
C1_AxonSentinels ==
  IsEnc("NumberKind", "val_to_axon", "haystack::Number") =>
    /\ last.ok
    /\ last.ret = (CASE last.arg.float = NaN -> S_nan
                     [] last.arg.float = PosInf -> S_posInf
                     [] last.arg.float = NegInf -> S_negInf
                     [] OTHER -> Number_to_str(last.arg))
    /\ (last.arg.float = NaN => last.path = <<"is_na_n">>)
    /\ (last.arg.float.c = "fin" => last.path[Len(last.path)] = "to_str")

C1_Witness ==
  /\ IsEnc("NumberKind", "val_to_axon", "haystack::Number")
  /\ last.arg.float = NaN
  /\ last.ret = S_nan

\* C2: for every one of the five Kinds, the default-value operation invoked
\* through the name the base Kind dispatches (def_val) reaches the Kind's own
\* override, does not raise and returns a value of the Kind's backing type.
C2_DefValNeverFails ==
  (last.op = "def_val" /\ last.name \in BaseMethods) =>
    /\ Resolve(kinds[last.k].cls, last.name) = "own"
    /\ last.ok
    /\ last.ret.t = kinds[last.k].type

\* C3: RefKind.toTagOf(t) returns a Kind whose tag is t, whose displayName is
\* "Ref<" + t + ">", and whose name, backing type and isRef classification
\* are those of the base Ref kind.
C3_ToTagOfResult ==
  last.op = "toTagOf" =>
    LET n == kinds[last.ret]
        b == kinds[2]
    IN /\ n.tag = last.arg
       /\ n.displayName = S_Ref \o <<"<">> \o last.arg \o <<">">>
       /\ n.name = S_Ref /\ n.name = b.name
       /\ n.type = "xeto::Ref" /\ n.type = b.type
       /\ \A p \in {"isRef", "is_ref"} : InvokeIs(n, p) = InvokeIs(b, p)

C3_Witness ==
  /\ last.op = "toTagOf"
  /\ last.arg = <<"a">>
  /\ kinds[last.ret].displayName = <<"R", "e", "f", "<", "a", ">">>
  /\ kinds[last.ret].tag = <<"a">>

\* C4: a toTagOf call changes no Kind that existed before it (the receiver's
\* tag, name and displayName stay what they were) and returns a new
\* instance, distinct from every earlier one, that carries the requested tag.
C4_ToTagOfFrame ==
  [][last'.op = "toTagOf" =>
       /\ \A j \in DOMAIN kinds : j \in DOMAIN kinds' /\ kinds'[j] = kinds[j]
       /\ last'.ret \notin DOMAIN kinds
       /\ last'.ret \in DOMAIN kinds'
       /\ kinds'[last'.ret].tag = last'.arg]_vars

\* two toTagOf results with different tags, next to an untouched base Ref kind
C4_Witness ==
  /\ last.op = "toTagOf"
  /\ Len(kinds) = 7
  /\ kinds[6].tag = <<"a">>
  /\ kinds[7].tag = <<"b">>
  /\ kinds[2].tag = None

\* C5: no operation of a Kind changes the name, tag or displayName of an
\* already constructed Kind.
C5_KindsImmutable ==
  [][\A j \in DOMAIN kinds :
       /\ kinds'[j].name = kinds[j].name
       /\ kinds'[j].tag = kinds[j].tag
       /\ kinds'[j].displayName = kinds[j].displayName]_vars

\* C6: every Ref Kind has name "Ref"; its displayName is "Ref" when its tag
\* is absent and "Ref<t>" when its tag is t.
C6_RefDisplayName ==
  \A j \in DOMAIN kinds :
    kinds[j].cls = "RefKind" =>
      /\ kinds[j].name = S_Ref
      /\ (kinds[j].tag = None => kinds[j].displayName = S_Ref)
      /\ (kinds[j].tag # None =>
            kinds[j].displayName = S_Ref \o <<"<">> \o kinds[j].tag \o <<">">>)

C8_ClassifyExact ==
  (last.op = "is" /\ last.name \in BaseMethods) =>
    /\ last.ok
    /\ last.ret = (kinds[last.k].cls =
                     (CASE last.name = "is_number" -> "NumberKind"
                        [] last.name = "is_ref" -> "RefKind"
                        [] OTHER -> "XStrKind"))

C10_CoordEncodings ==
  (last.op = "enc" /\ kinds[last.k].cls = "CoordKind"
     /\ last.name \in {"valToJson", "valToAxon"} /\ last.arg.t = "haystack::Coord") =>
    LET ll == Coord_toLatLgnStr(last.arg)
        js == InvokeEnc(kinds[last.k], "valToJson", last.arg)
        ax == InvokeEnc(kinds[last.k], "valToAxon", last.arg)
    IN /\ last.ok
       /\ last.name = "valToJson" => last.ret = <<"c", ":">> \o ll
       /\ last.name = "valToAxon" =>
            last.ret = <<"c", "o", "o", "r", "d", "(">> \o ll \o <<")">>
       /\ js.ok /\ ax.ok
       /\ SubSeq(js.ret, 3, Len(js.ret)) = SubSeq(ax.ret, 7, Len(ax.ret) - 1)

C10_Witness ==
  /\ IsEnc("CoordKind", "valToAxon", "haystack::Coord")
  /\ last.arg.lat = -9 /\ last.arg.lng = 12
  /\ last.ret = <<"c", "o", "o", "r", "d", "(", "-", "9", ",", "1", "2", ")">>

\* C11: for every Bin with mime string m, BinKind.val_to_json is "b:" + m
\* with m copied raw, and BinKind.val_to_axon is 'xstr("Bin",' + quoted(m)
\* + ')' with no space after the comma.
C11_BinJsonAxon ==
  (last.op = "enc" /\ kinds[last.k].cls = "BinKind"
     /\ last.name \in {"val_to_json", "val_to_axon"} /\ last.arg.t = "haystack::Bin") =>
    /\ last.ok
    /\ last.name = "val_to_json" => last.ret = <<"b", ":">> \o last.arg.mime
    /\ last.name = "val_to_axon" =>
         last.ret = <<"x", "s", "t", "r", "(", "\"", "B", "i", "n", "\"", ",">>
                      \o Str_to_code(last.arg.mime) \o <<")">>

\* a mime string with a quote: raw in JSON
C11_Witness ==
  /\ IsEnc("BinKind", "val_to_json", "haystack::Bin")
  /\ last.arg.mime = <<"\"">>
  /\ last.ret = <<"b", ":", "\"">>

\* C12: for every Bin with mime string m, BinKind.val_to_zinc is 'Bin(' +
\* quoted(m) + ')', and the quoted text is the one val_to_axon embeds.
C12_BinZinc ==
  IsEnc("BinKind", "val_to_zinc", "haystack::Bin") =>
    LET ax == InvokeEnc(kinds[last.k], "val_to_axon", last.arg)
    IN /\ last.ok
       /\ last.ret = <<"B", "i", "n", "(">> \o Str_to_code(last.arg.mime) \o <<")">>
       /\ ax.ok
       /\ SubSeq(last.ret, 5, Len(last.ret) - 1) = SubSeq(ax.ret, 12, Len(ax.ret) - 1)

\* a mime string with a quote: escaped in the grid literal
C12_Witness ==
  /\ IsEnc("BinKind", "val_to_zinc", "haystack::Bin")
  /\ last.arg.mime = <<"\"">>
  /\ last.ret = <<"B", "i", "n", "(", "\"", "\\", "\"", "\"", ")">>

\* C13: for every XStr with type name T and payload P, XStrKind.val_to_json
\* is "x:" + T + ":" + P with neither field escaped, and XStrKind.val_to_axon
\* is "xstr(" + quoted(T) + ", " + quoted(P) + ")".
C13_XStrJsonAxon ==
  (last.op = "enc" /\ kinds[last.k].cls = "XStrKind"
     /\ last.name \in {"val_to_json", "val_to_axon"} /\ last.arg.t = "haystack::XStr") =>
    /\ last.ok
    /\ last.name = "val_to_json" =>
         last.ret = <<"x", ":">> \o last.arg.type \o <<":">> \o last.arg.val
    /\ last.name = "val_to_axon" =>
         last.ret = <<"x", "s", "t", "r", "(">> \o Str_to_code(last.arg.type)
                      \o <<",", " ">> \o Str_to_code(last.arg.val) \o <<")">>

C13_Witness ==
  /\ IsEnc("XStrKind", "val_to_axon", "haystack::XStr")
  /\ last.arg.type = <<"T">> /\ last.arg.val = <<"p">>
  /\ last.ret = <<"x", "s", "t", "r", "(", "\"", "T", "\"", ",", " ", "\"", "p", "\"", ")">>

\* the JSON encoder each of CoordKind, BinKind and XStrKind defines
JsonName(cls) == IF cls = "CoordKind" THEN "valToJson" ELSE "val_to_json"
JsonPrefix(cls) == CASE cls = "CoordKind" -> <<"c", ":">>
                     [] cls = "BinKind" -> <<"b", ":">>
                     [] OTHER -> <<"x", ":">>
PrefixKinds == {"CoordKind", "BinKind", "XStrKind"}

\* C14: the JSON encoder of CoordKind always emits a string starting with
\* "c:", BinKind's with "b:" and XStrKind's with "x:", and no string emitted
\* by one of them starts with the letter another of them emits first.
C14_JsonPrefixes ==
  (/\ last.op = "enc"
   /\ kinds[last.k].cls \in PrefixKinds
   /\ last.name = JsonName(kinds[last.k].cls)
   /\ last.arg.t = kinds[last.k].type) =>
    /\ last.ok
    /\ SubSeq(last.ret, 1, 2) = JsonPrefix(kinds[last.k].cls)
    /\ \A j \in DOMAIN kinds : \A v \in Values :
         (/\ kinds[j].cls \in PrefixKinds
          /\ kinds[j].cls # kinds[last.k].cls
          /\ v.t = kinds[j].type) =>
           LET o == InvokeEnc(kinds[j], JsonName(kinds[j].cls), v)
           IN o.ok /\ Head(o.ret) # Head(last.ret)

C14_Witness ==
  /\ IsEnc("XStrKind", "val_to_json", "haystack::XStr")
  /\ SubSeq(last.ret, 1, 2) = <<"x", ":">>

HasColon(s) == \E i \in 1..Len(s) : s[i] = ":"
\* the remainder rule: after "x:", the type name runs to the first colon and
\* the payload is everything after it
SplitXStr(s) ==
  LET rest == SubSeq(s, 3, Len(s))
      i == CHOOSE n \in 1..Len(rest) :
             rest[n] = ":" /\ \A m \in 1..(n - 1) : rest[m] # ":"
  IN IF HasColon(rest)
       THEN <<SubSeq(rest, 1, i - 1), SubSeq(rest, i + 1, Len(rest))>>
       ELSE <<rest, None>>

\* C15: for every XStr whose type name has no colon, splitting the output of
\* XStrKind.val_to_json after "x:" at the first colon recovers (typeName,
\* payload), and no other XStr with a colon-free type name has that output.
C15_XStrJsonDecodable ==
  (IsEnc("XStrKind", "val_to_json", "haystack::XStr") /\ ~HasColon(last.arg.type)) =>
    /\ last.ok
    /\ SplitXStr(last.ret) = <<last.arg.type, last.arg.val>>
    /\ \A v \in XStrs :
         (~HasColon(v.type) /\ InvokeEnc(kinds[last.k], "val_to_json", v).ret = last.ret)
           => v = last.arg

\* a colon-free type name decoded exactly, while an XStr whose type name has a
\* colon encodes to the same string
C15_Witness ==
  /\ IsEnc("XStrKind", "val_to_json", "haystack::XStr")
  /\ last.arg.type = <<"a">> /\ last.arg.val = <<":", "b">>
  /\ \E v \in XStrs :
       /\ HasColon(v.type)
       /\ v # last.arg
       /\ InvokeEnc(kinds[last.k], "val_to_json", v).ret = last.ret

\* C16: when a Number is built from a duration with no explicit unit, the
\* duration d and the duration -d select the same unit.
C16_NegSameUnit ==
  (last.op = "make_duration" /\ last.arg.unit = None) =>
    last.ret.unit = Number_make_duration_body(Dur_neg(last.arg.dur), None).unit

\* minus one minute selects the unit of one minute
C16_Witness ==
  /\ last.op = "make_duration"
  /\ last.arg.unit = None
  /\ last.arg.dur = Dur(TRUE, 60, 0)
  /\ last.ret.unit = U_min

\* C17: with no explicit unit and t ticks, the unit is ms when |t| < 1e9, sec
\* when 1e9 <= |t| < 6e10, mins when 6e10 <= |t| < 3.6e12, hr when
\* 3.6e12 <= |t| < 8.64e13, and day when |t| >= 8.64e13.
C17_UnitThresholds ==
  (last.op = "make_duration" /\ last.arg.unit = None) =>
    LET h == last.arg.dur.hi
    IN last.ret.unit = (CASE h < 1 -> U_ms
                          [] 1 <= h /\ h < 60 -> U_sec
                          [] 60 <= h /\ h < 3600 -> U_min
                          [] 3600 <= h /\ h < 86400 -> U_hr
                          [] OTHER -> U_day)

\* exactly 1e9 ticks selects sec, the larger unit
C17_Witness ==
  /\ last.op = "make_duration"
  /\ last.arg.unit = None
  /\ last.arg.dur = Dur(FALSE, 1, 0)
  /\ last.ret.unit = U_sec

\* what the grid reader makes of a literal, by its leading characters
ZincTypeOf(s) ==
  CASE s # <<>> /\ s[1] = "@" -> "xeto::Ref"
    [] Len(s) >= 2 /\ SubSeq(s, 1, 2) = <<"C", "(">> -> "haystack::Coord"
    [] Len(s) >= 4 /\ SubSeq(s, 1, 4) = <<"B", "i", "n", "(">> -> "haystack::Bin"
    [] s # <<>> /\ s[1] \in {"-", "0", "1", "2", "3", "4", "5", "6", "7", "8", "9", "I", "N"}
         -> "haystack::Number"
    [] OTHER -> "haystack::XStr"

\* C18: for every one of the five Kinds k, the default value of k is produced,
\* k's grid encoder accepts it without a type mismatch, and the grid text
\* reads back as a value of k's backing type.
C18_DefValRoundTrip ==
  (last.op = "def_val" /\ last.name \in BaseMethods) =>
    /\ last.ok
    /\ LET z == InvokeEnc(kinds[last.k], "val_to_zinc", last.ret)
       IN z.ok /\ ZincTypeOf(z.ret) = kinds[last.k].type

IsGet == last.op = "get"

\* C20: get(alias, checked) returns a stored entry whose alias equals the
\* requested one ignoring case whenever there is one; when there is none it
\* raises Err if checked and returns None if not; contains_alias(alias) is
\* true exactly when such an entry is stored; neither call changes the store.
C20_GetCaseInsensitive ==
  /\ [](LET m == IF last.op \in {"get", "contains_alias"}
                   THEN LowerIdx(entries, last.arg.alias) ELSE {}
        IN /\ (IsGet /\ m # {}) =>
                last.ok /\ \E i \in m : last.ret = entries[i][2]
           /\ (IsGet /\ m = {} /\ last.arg.checked) =>
                ~last.ok /\ last.err = "Err"
           /\ (IsGet /\ m = {} /\ ~last.arg.checked) =>
                last.ok /\ last.ret = None
           /\ last.op = "contains_alias" => last.ok /\ last.ret = (m # {}))
  /\ [][last'.op \in {"get", "contains_alias"} => entries' = entries]_vars

\* "h" looked up in a store that holds the entry under "H" only
C20_Witness ==
  /\ IsGet
  /\ last.arg.alias = <<"h">>
  /\ Len(entries) = 1
  /\ entries[1][1] = <<"H">>
  /\ last.ok
  /\ last.ret = entries[1][2]

\* C21: when the with-block of open_haystack_client / open_haxall_client is
\* left after the client opened, close has been called exactly once, whether
\* the body completed or raised, and what propagates is what the body raised
\* (nothing if it completed); close itself never raises; before the block is
\* left close has not been called; if opening failed close is never called
\* and the open failure propagates.
C21_ClosedOnceOnExit ==
  /\ (client.pc = "left" /\ client.cls # "") =>
        client.closes = 1 /\ client.raised = client.body
  /\ (client.pc = "left" /\ client.cls = "") =>
        client.closes = 0 /\ client.raised = "IOErr"
  /\ client.pc \in {"body", "finally"} => client.closes = 0
  /\ last.op = "close" => last.ok

\* the body raised, the underlying close failed too, and the block was left
C21_Witness ==
  /\ client.pc = "left"
  /\ client.body = "Err"
  /\ last.op = "close"
  /\ last.arg = TRUE
  /\ client.closes = 1

\* the stored private-key entries whose alias is "https" ignoring case
HttpsPriv == {i \in LowerIdx(entries, S_https) : entries[i][2][1] = "priv"}

\* C22: https_key(checked) returns a key store holding, under alias "https",
\* the private-key entry the keystore has under an alias equal to "https"
\* ignoring case, whenever there is one; otherwise it raises ArgErr if checked
\* and returns None if not; the extension's own keystore is never changed.
C22_HttpsKey ==
  /\ [](last.op = "https_key" =>
          /\ HttpsPriv # {} =>
               last.ok /\ \E i \in HttpsPriv : last.ret = NewKeyStore(entries[i][2])
          /\ (HttpsPriv = {} /\ last.arg.checked) => ~last.ok /\ last.err = "ArgErr"
          /\ (HttpsPriv = {} /\ ~last.arg.checked) => last.ok /\ last.ret = None)
  /\ [][last'.op = "https_key" => entries' = entries]_vars

\* the keys of a dict given as its items
DictKeys(d) == {d[n][1] : n \in DOMAIN d}

\* C23: Grid.to_py returns one dict per grid row, in row order; the keys of the
\* i-th dict are exactly the names of the columns whose cell in the i-th row
\* is non-null and whose lookup does not fail, each once; without deep the
\* value under a key is the cell itself; the grid is not modified.
C23_GridToPy ==
  /\ [](last.op = "to_py" =>
          LET res == last.ret
          IN /\ last.ok
             /\ Len(res) = Len(grid.rows)
             /\ \A i \in 1..Len(res) :
                  /\ DictKeys(res[i]) =
                       {grid.cols[j] : j \in {j \in 1..Len(grid.cols) :
                                          grid.rows[i][j] \notin {CellNull, CellFail}}}
                  /\ Len(res[i]) = Cardinality(DictKeys(res[i]))
                  /\ ~last.arg =>
                       \A n \in 1..Len(res[i]) : \E j \in 1..Len(grid.cols) :
                          res[i][n] = <<grid.cols[j], grid.rows[i][j]>>)
  /\ [][last'.op = "to_py" => grid' = grid]_vars

\* two rows, the first with a null and a failing cell and so no key, the
\* second with a value in each column, converted deeply
C23_Witness ==
  /\ last.op = "to_py"
  /\ last.arg
  /\ grid.cols = <<"a", "b">>
  /\ grid.rows = <<<<CellNull, CellFail>>, <<CellNA, CellStr>>>>
  /\ last.ret[1] = <<>>
  /\ DictKeys(last.ret[2]) = {"a", "b"}

\* the Numbers over the units defined so far
NumbersDefined ==
  [t : {"haystack::Number"}, float : Floats, unit : {unit[2] : unit \in units} \cup {None}]

\* the unit string from_py settled on in the last call
FromPyUnit == IF last.arg.val.tuple THEN last.arg.val.u ELSE last.arg.unit

PathCalls == {last.path[n] : n \in DOMAIN last.path}

\* C25: in on_server, login is called only after auth_secret(given) returned
\* true in the same call; a "hello" message is answered with the challenge
\* naming the scheme, without auth_secret or login; for any other message a
\* false auth_secret raises AuthErr, no login happens and no authToken is
\* returned.
C25_LoginAfterAuth ==
  last.op = "on_server" =>
    LET msg == last.arg.msg
        passes == msg.password # None
                    /\ Cx_auth_secret(last.arg.secret, AuthUtil_from_base64(msg.password))
    IN /\ "login" \in PathCalls => last.path = <<"auth_secret", "login">> /\ passes
       /\ (last.ok /\ Len(last.ret) = 4) => "login" \in PathCalls
       /\ msg.scheme = "hello" =>
            last.ok /\ last.ret = AuthMsg_from_str(last.name) /\ last.path = <<>>
       /\ (msg.scheme # "hello" /\ msg.password # None /\ ~passes) =>
            /\ ~last.ok
            /\ last.err = "AuthErr"
            /\ "login" \notin PathCalls
            /\ last.ret = None

\* a wrong password given to the x-plaintext scheme
C25_Witness ==
  /\ last.op = "on_server"
  /\ last.name = "x-plaintext"
  /\ last.arg.msg = [scheme |-> "x-plaintext", password |-> AuthUtil_to_base64("p1")]
  /\ last.arg.secret = "p2"
  /\ last.err = "AuthErr"
  /\ last.path = <<"auth_secret">>

\* C26: the store holds at most one entry per alias ignoring case: no two
\* stored aliases are equal ignoring case, and size() is the number of stored
\* aliases that are distinct ignoring case.
C26_OnePerAlias ==
  /\ \A i, j \in DOMAIN entries :
       LowerStr(entries[i][1]) = LowerStr(entries[j][1]) => i = j
  /\ last.op = "size" =>
       last.ret = Cardinality({LowerStr(entries[i][1]) : i \in DOMAIN entries})

\* C27: right after set_(alias, entry), whatever came before, get(alias, False)
\* gives exactly the entry just stored.
C27_ReadYourWrite ==
  (last.op = "set" /\ last.name = "set_") =>
     KeyStore_get(entries, last.arg.alias, FALSE).ret = last.arg.entry

\* C28: right after remove(alias), whatever came before, contains_alias(alias)
\* is false and get(alias, False) is None.
C28_RemovedIsGone ==
  last.op = "remove" =>
     /\ ~KeyStore_contains_alias(entries, last.arg.alias).ret
     /\ KeyStore_get(entries, last.arg.alias, FALSE).ret = None

====
